---------------------------- MODULE Spec2Model ----------------------------
(***************************************************************************)
(* Logo similarity pipeline (main.py, src/logo_extractor.py,               *)
(* src/image_processor.py, src/clusterer.py).                              *)
(*                                                                         *)
(* LogoSimilarityPipeline.run drives three stages: extract_all_logos       *)
(* (batches, asyncio.gather, one semaphore per batch), process_all_images  *)
(* (chunks, asyncio.as_completed, one semaphore for the phase) and         *)
(* Clusterer.cluster_by_similarity (threshold graph, connected components).*)
(* Python dicts are modelled as sequences of [k, v] entries with unique    *)
(* keys, so that their insertion order is kept.                            *)
(***************************************************************************)
EXTENDS Integers, Sequences, FiniteSets, TLC

VARIABLES
    config,       \* Config attributes read by the pipeline
    domains,      \* the input list of run()/extract_all_logos
    pc,           \* position of the coordinator coroutine
    i,            \* extract_all_logos: start index of the current batch (0-based)
    etask,        \* extract_batch workers, by input position: [st, result]
    esem,         \* free permits of the semaphore of the current extract_batch
    esession,     \* LogoExtractor.session: "unopened" | "open" | "closed"
    logo_urls,    \* dict domain -> url built by extract_all_logos
    items,        \* process_all_images: list of (domain, url) with a truthy url
    j,            \* process_all_images: start index of the current chunk (0-based)
    htask,        \* hashing workers, by position in items: [st, result]
    hsem,         \* free permits of the semaphore of process_all_images
    hqueue,       \* as_completed: finished workers not yet consumed, in completion order
    hsession,     \* ImageProcessor.session
    logo_data,    \* dict domain -> fingerprint record built by process_all_images
    processed,    \* process_all_images: local counter
    valid_domains,\* cluster_by_similarity: list of domains with a phash
    G,            \* the networkx graph: [nodes : sequence, edges : set of [pair, distance]]
    ci, ck,       \* cluster_by_similarity: positions of domain1 and domain2
    clusters,     \* result of cluster_by_similarity
    stats,        \* LogoSimilarityPipeline.stats
    ret,          \* what extract_all_logos / process_all_images handed back
    hist          \* history of the run, for stating the properties

vars == << config, domains, pc, i, etask, esem, esession, logo_urls, items, j,
           htask, hsem, hqueue, hsession, logo_data, processed, valid_domains,
           G, ci, ck, clusters, stats, ret, hist >>

-----------------------------------------------------------------------------
(* Bounds of the model *)

\* maximal length of the input list of domains of a run
MaxLen == 3
\* largest number of entries of a url map handed to process_all_images directly
MaxItems == 4
\* values of BATCH_SIZE, MAX_CONCURRENT and HASH_CHUNK_SIZE tried (--batch-size,
\* --max-concurrent, --hash-chunk-size)
BatchSizes == { 1, 2 }
Concurrencies == { 1, 2 }
ChunkSizes == { 1, 2 }
\* largest number of entries of a fingerprint map handed to the clusterer directly
MaxRecords == 4
\* largest number of entries of a fingerprint map of repeated codes
MaxSame == 5

DomainNames == << "a.com", "b.com", "c.com", "d.com", "e.com", "f.com" >>
\* the domains a run's input list is drawn from (it may repeat a domain)
Domains == { "a.com", "b.com" }

\* Config.MAX_RETRIES
DefaultRetries == 1
\* Config.NEAR_DUPLICATE_THRESHOLD and the sentinel of _compute_hash_distance
DefaultThreshold == 5
Sentinel == 999
Thresholds == { 0, DefaultThreshold, Sentinel }

Min(a, b) == IF a <= b THEN a ELSE b

-----------------------------------------------------------------------------
(* Python values *)

None == [kind |-> "None", dom |-> ""]
EmptyStr == [kind |-> "empty", dom |-> ""]
Raised == [kind |-> "exception", dom |-> ""]
Url(kind, d) == [kind |-> kind, dom |-> d]

\* truth value of a url (None and "" are falsy)
Truthy(u) == u.kind \notin { "None", "empty" }

isinstance_Exception(r) == r.kind = "exception"

(* dict: a sequence of entries [k, v], keys unique, in insertion order *)
Keys(m) == { m[x].k : x \in 1..Len(m) }
Get(m, key) == (CHOOSE e \in { m[x] : x \in 1..Len(m) } : e.k = key).v
SetItem(m, key, val) ==
    IF key \in Keys(m)
    THEN [ x \in 1..Len(m) |-> IF m[x].k = key THEN [k |-> key, v |-> val] ELSE m[x] ]
    ELSE Append(m, [k |-> key, v |-> val])
RECURSIVE Update(_, _)
Update(m, other) ==
    IF other = << >> THEN m
    ELSE Update(SetItem(m, Head(other).k, Head(other).v), Tail(other))

\* what the network and the page gave a strategy of the extraction chain
StrategyOutcomes == { "url", "none", "raise" }

-----------------------------------------------------------------------------
(* LogoExtractor *)

favicon(domain) == Url("favicon", domain)

\* extract_logo_url: html is the outcome of _extract_from_html, paths the one
\* of _try_common_paths; every exception ends in the favicon fallback
extract_logo_url_reraise(domain, html, paths) ==
    IF html = "raise" THEN Raised
    ELSE IF html = "url" THEN Url("html", domain)
    ELSE IF paths = "raise" THEN Raised
    ELSE IF paths = "url" THEN Url("path", domain)
    ELSE favicon(domain)

extract_logo_url(domain, html, paths) ==
    IF html = "raise" THEN favicon(domain)
    ELSE IF html = "url" THEN Url("html", domain)
    ELSE IF paths = "raise" THEN favicon(domain)
    ELSE IF paths = "url" THEN Url("path", domain)
    ELSE favicon(domain)

\* positions of the batch that starts at index start (0-based), of size size
Slice_overlap(start, size, n) == (IF start = 0 THEN 1 ELSE start)..Min(start + size, n)

Slice(start, size, n) == (start + 1)..Min(start + size, n)

\* extract_batch, after gather: output[domain] for each (domain, result) of zip
RECURSIVE BatchOutput(_, _, _)
BatchOutput(out, p, last) ==
    IF p > last THEN out
    ELSE LET result == etask[p].result
             value == IF isinstance_Exception(result) THEN None ELSE result
         IN BatchOutput(SetItem(out, domains[p], value), p + 1, last)


-----------------------------------------------------------------------------
(* Initial states *)

NoTask == [st |-> "none", result |-> None]
NoReturn == [kind |-> "pending", map |-> << >>]

EmptyGraph == [nodes |-> << >>, edges |-> {}]

InitHist ==
    [ efail     |-> FALSE,   \* some extraction chain of the run raised
      hout      |-> << >>,   \* by domain: did its process_logo fail, and the code drawn
      merged    |-> {},      \* input positions whose batch was merged into logo_urls
      called    |-> << >>,   \* number of process_logo calls, by position in items
      consumed  |-> {},      \* positions in items whose result the coordinator consumed
      semCreated|-> 0,       \* semaphores created by process_all_images
      boundary  |-> << >>,   \* the phase's map as of the last completed batch / chunk
      cancelled |-> "no",    \* phase in which the coordinator was cancelled
      crashed   |-> "no",    \* phase out of which an exception escaped
      compared  |-> {},      \* every evaluation of line 47: [d1, d2, distance]
      issued    |-> {},      \* [phase, session]: state of the phase's session when a
                             \* worker entered its operation and asked it for a request
      first     |-> [done |-> FALSE, clusters |-> << >>, edges |-> {}],
                             \* what an earlier call of cluster_by_similarity gave
      ecalled   |-> << >>,   \* number of extract_logo_url calls, by input position
      ncmp      |-> 0 ]      \* number of _compute_hash_distance calls of the current
                             \* cluster_by_similarity

InitRest ==
    /\ i = 0
    /\ etask = [ p \in 1..Len(domains) |-> NoTask ]
    /\ esem = 0
    /\ esession = "unopened"
    /\ items = << >>
    /\ j = 0
    /\ htask = << >>
    /\ hsem = 0
    /\ hqueue = << >>
    /\ hsession = "unopened"
    /\ processed = 0
    /\ valid_domains = << >>
    /\ G = EmptyGraph
    /\ ci = 0
    /\ ck = 0
    /\ clusters = << >>
    /\ ret = [extract |-> NoReturn, hash |-> NoReturn]
    /\ hist = InitHist

\* run(): the domains are loaded, stats['total_domains'] is set
Init ==
    /\ config \in [ BATCH_SIZE : BatchSizes, MAX_CONCURRENT : Concurrencies,
                    HASH_CHUNK_SIZE : ChunkSizes,
                    NEAR_DUPLICATE_THRESHOLD : { DefaultThreshold },
                    MAX_RETRIES : { DefaultRetries } ]
    /\ domains \in UNION { [ 1..n -> Domains ] : n \in 0..MaxLen }
    /\ pc = "extract_enter"
    /\ logo_urls = << >>
    /\ logo_data = << >>
    /\ stats = [ total_domains |-> Len(domains), logos_extracted |-> 0,
                 logos_processed |-> 0 ]
    /\ InitRest

-----------------------------------------------------------------------------
(* extract_all_logos *)

hashVars == << items, j, htask, hsem, hqueue, hsession, logo_data, processed >>
clusterVars == << valid_domains, G, ci, ck, clusters >>
extractVars == << i, etask, esem, esession, logo_urls >>

\* number of truthy urls, as counted for stats['logos_extracted']
CountTruthy(m) == Cardinality({ x \in 1..Len(m) : Truthy(m[x].v) })

Batch == Slice(i, config.BATCH_SIZE, Len(domains))

\* for k in range(0, n, step): the loop is over when k has reached n
LoopDoneEarly(k, n) == k > 0 \/ k >= n
LoopDone(k, n) == k >= n

\* gather returns once every task of the batch has finished
GatherDoneAny == \E p \in Batch : etask[p].st = "done"

GatherDone == \A p \in Batch : etask[p].st = "done"

\* lines 39-42: the map is created and the extractor's session opened
ExtractEnter ==
    /\ pc = "extract_enter"
    /\ logo_urls' = << >>
    /\ esession' = "open"
    /\ i' = 0
    /\ pc' = "extract_loop"
    /\ hist' = [ hist EXCEPT !.ecalled = [ p \in 1..Len(domains) |-> 0 ] ]
    /\ UNCHANGED << config, domains, etask, esem, stats, ret >>
    /\ UNCHANGED hashVars /\ UNCHANGED clusterVars

\* lines 44-48 and extract_batch lines 134-141: the next batch's tasks are created
\* under a new semaphore
ExtractBatchStart ==
    /\ pc = "extract_loop"
    /\ ~LoopDone(i, Len(domains))
    /\ etask' = [ p \in 1..Len(domains) |->
                    IF p \in Batch THEN [st |-> "pending", result |-> None]
                    ELSE etask[p] ]
    /\ esem' = config.MAX_CONCURRENT
    /\ pc' = "extract_gather"
    /\ UNCHANGED << config, domains, i, esession, logo_urls, stats, ret, hist >>
    /\ UNCHANGED hashVars /\ UNCHANGED clusterVars

\* a permit is free for worker p (asyncio.Semaphore.acquire)
CanAcquireWeak(sem) == sem >= 0
CanAcquireStrict(sem) == sem > 1
CanAcquire(sem) == sem > 0

\* leaving "async with semaphore" (asyncio.Semaphore.__aexit__): the permit goes
\* back whether the block returned or an exception (exc) leaves it
Release_unless_raised(sem, exc) == IF exc THEN sem ELSE sem + 1
Release(sem, exc) == sem + 1

\* n cancelled workers leave their "async with" blocks with CancelledError
RECURSIVE ReleaseCancelled(_, _)
ReleaseCancelled(sem, n) ==
    IF n = 0 THEN sem ELSE ReleaseCancelled(Release(sem, TRUE), n - 1)

\* worker, line 137: the tasks of gather start in list order and the semaphore
\* wakes its waiters first-in first-out
ExtractAcquire(p) ==
    /\ pc = "extract_gather"
    /\ etask[p].st = "pending"
    /\ \A q \in Batch : q < p => etask[q].st # "pending"
    /\ CanAcquire(esem)
    /\ esem' = esem - 1
    /\ etask' = [ etask EXCEPT ![p].st = "running" ]
    /\ hist' = [ hist EXCEPT !.ecalled[p] = @ + 1,
                             !.issued = @ \cup { [phase |-> "extract", session |-> esession] } ]
    /\ UNCHANGED << config, domains, pc, i, esession, logo_urls, stats, ret >>
    /\ UNCHANGED hashVars /\ UNCHANGED clusterVars

\* worker, line 138: extract_logo_url returns and the permit is released
ExtractFinish(p, html, paths) ==
    /\ pc = "extract_gather"
    /\ etask[p].st = "running"
    /\ esession = "open"
    /\ etask' = [ etask EXCEPT ![p] =
                    [st |-> "done", result |-> extract_logo_url(domains[p], html, paths)] ]
    /\ esem' = Release(esem, FALSE)
    /\ hist' = [ hist EXCEPT !.efail = @ \/ "raise" \in { html, paths } ]
    /\ UNCHANGED << config, domains, pc, i, esession, logo_urls, stats, ret >>
    /\ UNCHANGED hashVars /\ UNCHANGED clusterVars

\* extract_batch lines 141-149 and extract_all_logos lines 49-53: gather returns,
\* the batch's output is built and merged, the statistics are updated
ExtractMerge ==
    /\ pc = "extract_gather"
    /\ GatherDone
    /\ LET output == BatchOutput(<< >>, i + 1, Min(i + config.BATCH_SIZE, Len(domains)))
           merged == Update(logo_urls, output)
       IN /\ logo_urls' = merged
          /\ stats' = [ stats EXCEPT !.logos_extracted = CountTruthy(merged) ]
          /\ hist' = [ hist EXCEPT !.merged = @ \cup Batch, !.boundary = merged ]
    /\ pc' = "extract_sleep"
    /\ UNCHANGED << config, domains, i, etask, esem, esession, ret >>
    /\ UNCHANGED hashVars /\ UNCHANGED clusterVars

\* line 54 and the loop's step: the pause between two batches ends; the tasks
\* and results of the batch, locals of extract_batch, are gone
ExtractSleepDone ==
    /\ pc = "extract_sleep"
    /\ i' = i + config.BATCH_SIZE
    /\ etask' = [ p \in 1..Len(domains) |->
                    IF p \in Batch THEN [st |-> "merged", result |-> None] ELSE etask[p] ]
    /\ pc' = "extract_loop"
    /\ UNCHANGED << config, domains, esem, esession, logo_urls, stats, ret, hist >>
    /\ UNCHANGED hashVars /\ UNCHANGED clusterVars

\* lines 42 (exit of the async with) and 56-58: the session is closed, the map returned
ExtractReturn ==
    /\ pc = "extract_loop"
    /\ LoopDone(i, Len(domains))
    /\ esession' = "closed"
    /\ ret' = [ ret EXCEPT !.extract = [kind |-> "map", map |-> logo_urls] ]
    /\ pc' = "hash_enter"
    /\ UNCHANGED << config, domains, i, etask, esem, logo_urls, stats, hist >>
    /\ UNCHANGED hashVars /\ UNCHANGED clusterVars

\* the coordinator is cancelled at one of its awaits (lines 48, 54): CancelledError
\* is no Exception, nothing in extract_all_logos catches it; gather cancels its
\* tasks and waits for them (the running ones leave their "async with semaphore"
\* and give their permits back), the async with closes the session, and the
\* error leaves the coroutine
ExtractCancel ==
    /\ pc \in { "extract_gather", "extract_sleep" }
    /\ etask' = [ p \in 1..Len(domains) |->
                    IF etask[p].st \in { "pending", "running" }
                    THEN [st |-> "cancelled", result |-> None] ELSE etask[p] ]
    /\ esession' = "closed"
    /\ ret' = [ ret EXCEPT !.extract = [kind |-> "raised", map |-> << >>] ]
    /\ hist' = [ hist EXCEPT !.cancelled = "extract" ]
    /\ esem' = ReleaseCancelled(esem,
                    Cardinality({ p \in 1..Len(domains) : etask[p].st = "running" }))
    /\ pc' = "cancelled"
    /\ UNCHANGED << config, domains, i, logo_urls, stats >>
    /\ UNCHANGED hashVars /\ UNCHANGED clusterVars

-----------------------------------------------------------------------------
(* ImageProcessor and process_all_images *)

\* fingerprint records; phash is the hex string, a sequence of hex digits
NoneData == [kind |-> "None", url |-> None, phash |-> << >>]
RaisedData == [kind |-> "exception", url |-> None, phash |-> << >>]
Record(url, phash) == [kind |-> "record", url |-> url, phash |-> phash]

\* codes that str(imagehash.phash(...)) gives: hex strings of one length, whose
\* number of bits is a square (here 4 digits, a hash of 4 x 4 bits)
H0000 == << 0, 0, 0, 0 >>
H0007 == << 0, 0, 0, 7 >>
H001F == << 0, 0, 1, 15 >>
H007F == << 0, 0, 7, 15 >>
H00F1 == << 0, 0, 15, 1 >>
PipelineHashes == { H0000, H001F }

\* what happens to one process_logo call: the fetch answers with a non-200
\* status, the request or the decoding raises, the image is too small, hashing
\* raises, an error escapes the call, or the image is hashed to phash
Fails == { "status", "error", "small", "hasherror", "raise" }
Outcome(res, phash) == [res |-> res, phash |-> phash]
ProcessOutcomes ==
    { Outcome(f, << >>) : f \in Fails } \cup { Outcome("ok", h) : h \in PipelineHashes }

\* download_image: None unless the status is 200 and the image is large enough
download_image_novalidate(url, o) ==
    IF o.res \in { "status", "error" } THEN "None" ELSE "img"

download_image(url, o) ==
    IF o.res \in { "status", "error", "small" } THEN "None" ELSE "img"

\* process_logo: None when the download or the hashing failed, else the record
process_logo(url, o) ==
    IF download_image(url, o) = "None" THEN NoneData
    ELSE IF o.res = "hasherror" THEN NoneData
    ELSE Record(url, o.phash)

\* line 72: what awaiting process_logo gives the worker, an exception included
await_process_logo(url, o) ==
    IF o.res = "raise" THEN RaisedData ELSE process_logo(url, o)

\* worker of process_all_images, lines 69-76: (domain, data), data None on any error
worker_noexcept(domain, url, o) ==
    [domain |-> domain, data |-> await_process_logo(url, o)]

worker(domain, url, o) ==
    LET data == await_process_logo(url, o)
    IN [domain |-> domain, data |-> IF data.kind = "exception" THEN NoneData ELSE data]

\* line 64: the (domain, url) pairs with a truthy url, in the dict's order
PendingItems_all(m) == m

RECURSIVE PendingItems(_)
PendingItems(m) ==
    IF m = << >> THEN << >>
    ELSE IF Truthy(Head(m).v) THEN << Head(m) >> \o PendingItems(Tail(m))
    ELSE PendingItems(Tail(m))

Chunk == Slice(j, config.HASH_CHUNK_SIZE, Len(items))

\* lines 62-68 and 78: the map, the work list, the one semaphore of the phase and
\* the session are created
HashEnter ==
    /\ pc = "hash_enter"
    /\ logo_data' = << >>
    /\ items' = PendingItems(logo_urls)
    /\ htask' = [ p \in 1..Len(items') |-> NoTask ]
    /\ hsem' = config.MAX_CONCURRENT
    /\ hsession' = "open"
    /\ processed' = 0
    /\ j' = 0
    /\ hqueue' = << >>
    /\ hist' = [ hist EXCEPT !.semCreated = @ + 1, !.boundary = << >>,
                             !.called = [ p \in 1..Len(items') |-> 0 ] ]
    /\ pc' = "hash_loop"
    /\ UNCHANGED << config, domains, stats, ret >>
    /\ UNCHANGED extractVars /\ UNCHANGED clusterVars

\* lines 79-82: the workers of the next chunk are created and handed to as_completed
HashChunkStart ==
    /\ pc = "hash_loop"
    /\ ~LoopDone(j, Len(items))
    /\ htask' = [ p \in 1..Len(items) |->
                    IF p \in Chunk THEN [st |-> "pending", result |-> NoneData]
                    ELSE htask[p] ]
    /\ hqueue' = << >>
    /\ pc' = "hash_consume"
    /\ UNCHANGED << config, domains, items, j, hsem, hsession, logo_data, processed,
                    stats, ret, hist >>
    /\ UNCHANGED extractVars /\ UNCHANGED clusterVars

\* worker, line 70: as_completed starts its tasks in the order of a set, so any
\* pending worker may be the next to take a permit
HashAcquire(p) ==
    /\ pc = "hash_consume"
    /\ htask[p].st = "pending"
    /\ CanAcquire(hsem)
    /\ hsem' = hsem - 1
    /\ htask' = [ htask EXCEPT ![p].st = "running" ]
    /\ hist' = [ hist EXCEPT !.called[p] = @ + 1,
                             !.issued = @ \cup { [phase |-> "hash", session |-> hsession] } ]
    /\ UNCHANGED << config, domains, pc, items, j, hqueue, hsession, logo_data,
                    processed, stats, ret >>
    /\ UNCHANGED extractVars /\ UNCHANGED clusterVars

\* worker, lines 71-76: process_logo ends, the permit is released, the task is done
HashFinish(p, o) ==
    /\ pc = "hash_consume"
    /\ htask[p].st = "running"
    /\ htask' = [ htask EXCEPT ![p] =
                    [st |-> "done", result |-> worker(items[p].k, items[p].v, o).data] ]
    /\ hsem' = Release(hsem, FALSE)
    /\ hqueue' = Append(hqueue, p)
    /\ hist' = [ hist EXCEPT !.hout = [ d \in DOMAIN hist.hout \cup { items[p].k } |->
                    IF d = items[p].k THEN [failed |-> o.res # "ok", phash |-> o.phash]
                    ELSE hist.hout[d] ] ]
    /\ UNCHANGED << config, domains, pc, items, j, hsession, logo_data, processed,
                    stats, ret >>
    /\ UNCHANGED extractVars /\ UNCHANGED clusterVars

\* lines 84-85: if data: logo_data[domain] = data
Merge_overwrite(m, domain, data) ==
    IF data.kind = "record" THEN << [k |-> domain, v |-> data] >> ELSE m

Merge(m, domain, data) ==
    IF data.kind = "record" THEN SetItem(m, domain, data) ELSE m

\* every worker of the chunk has been consumed by the loop of line 82
ChunkConsumed_any(done) == done # {}

ChunkConsumed(done) == Chunk \subseteq done

\* lines 82-86: the coordinator takes the next finished worker; an exception
\* kept by the task is raised again by the await and leaves the coroutine
HashConsume ==
    /\ pc = "hash_consume"
    /\ hqueue # << >>
    /\ LET p == Head(hqueue)
           domain == items[p].k
           data == htask[p].result
           done == hist.consumed \cup {p}
       IN IF data.kind = "exception"
          THEN /\ pc' = "crashed"
               /\ hsession' = "closed"
               /\ ret' = [ ret EXCEPT !.hash = [kind |-> "raised", map |-> << >>] ]
               /\ hist' = [ hist EXCEPT !.crashed = "hash" ]
               /\ UNCHANGED << logo_data, processed, j, hqueue >>
          ELSE /\ logo_data' = Merge(logo_data, domain, data)
               /\ processed' = IF data.kind = "record" THEN processed + 1 ELSE processed
               /\ hqueue' = Tail(hqueue)
               /\ IF ChunkConsumed(done)
                  THEN /\ j' = j + config.HASH_CHUNK_SIZE
                       /\ pc' = "hash_loop"
                       /\ hist' = [ hist EXCEPT !.consumed = done,
                                                !.boundary = logo_data' ]
                  ELSE /\ UNCHANGED << j, pc >>
                       /\ hist' = [ hist EXCEPT !.consumed = done ]
               /\ UNCHANGED << hsession, ret >>
    /\ UNCHANGED << config, domains, items, htask, hsem, stats >>
    /\ UNCHANGED extractVars /\ UNCHANGED clusterVars

\* lines 68 (exit of the async with) and 88-91: the session is closed, the
\* statistics are set, the map is returned
HashReturn ==
    /\ pc = "hash_loop"
    /\ LoopDone(j, Len(items))
    /\ hsession' = "closed"
    /\ stats' = [ stats EXCEPT !.logos_processed = processed ]
    /\ ret' = [ ret EXCEPT !.hash = [kind |-> "map", map |-> logo_data] ]
    /\ pc' = "cluster_enter"
    /\ UNCHANGED << config, domains, items, j, htask, hsem, hqueue, logo_data,
                    processed, hist >>
    /\ UNCHANGED extractVars /\ UNCHANGED clusterVars

\* the coordinator is cancelled at the await of line 83: CancelledError leaves
\* process_all_images through the async with, which closes the session.
\* as_completed does not cancel its tasks when its consumer is cancelled: the
\* workers of the chunk stay scheduled on the event loop
HashCancel ==
    /\ pc = "hash_consume"
    /\ hsession' = "closed"
    /\ ret' = [ ret EXCEPT !.hash = [kind |-> "raised", map |-> << >>] ]
    /\ hist' = [ hist EXCEPT !.cancelled = "hash" ]
    /\ pc' = "cancelled"
    /\ UNCHANGED << config, domains, items, j, htask, hsem, hqueue, logo_data,
                    processed, stats >>
    /\ UNCHANGED extractVars /\ UNCHANGED clusterVars

\* worker, line 70, after the coordinator is gone: a waiting worker takes a
\* free permit and calls process_logo, whose request goes to the closed session
OrphanAcquire(p) ==
    /\ pc = "cancelled"
    /\ hist.cancelled = "hash"
    /\ htask[p].st = "pending"
    /\ CanAcquire(hsem)
    /\ hsem' = hsem - 1
    /\ htask' = [ htask EXCEPT ![p].st = "running" ]
    /\ hist' = [ hist EXCEPT !.called[p] = @ + 1,
                             !.issued = @ \cup { [phase |-> "hash", session |-> hsession] } ]
    /\ UNCHANGED << config, domains, pc, items, j, hqueue, hsession, logo_data,
                    processed, stats, ret >>
    /\ UNCHANGED extractVars /\ UNCHANGED clusterVars

\* worker, lines 71-76, after the coordinator is gone: the worker ends and
\* releases its permit; nobody awaits its result
OrphanFinish(p) ==
    /\ pc = "cancelled"
    /\ hist.cancelled = "hash"
    /\ htask[p].st = "running"
    /\ htask' = [ htask EXCEPT ![p] = [st |-> "done", result |-> NoneData] ]
    /\ hsem' = Release(hsem, FALSE)
    /\ UNCHANGED << config, domains, pc, items, j, hqueue, hsession, logo_data,
                    processed, stats, ret, hist >>
    /\ UNCHANGED extractVars /\ UNCHANGED clusterVars

\* main, line 172: asyncio.run ends with the cancelled coroutine and cancels
\* the tasks that are left on the event loop; a running worker leaves its
\* "async with sem" with CancelledError, which its except Exception lets through
LoopShutdown ==
    /\ pc = "cancelled"
    /\ htask' = [ p \in 1..Len(htask) |->
                    IF htask[p].st \in { "pending", "running" }
                    THEN [st |-> "cancelled", result |-> NoneData] ELSE htask[p] ]
    /\ hsem' = ReleaseCancelled(hsem,
                    Cardinality({ p \in 1..Len(htask) : htask[p].st = "running" }))
    /\ pc' = "stopped"
    /\ UNCHANGED << config, domains, items, j, hqueue, hsession, logo_data,
                    processed, stats, ret, hist >>
    /\ UNCHANGED extractVars /\ UNCHANGED clusterVars

-----------------------------------------------------------------------------
(* Clusterer *)

\* a hex digit is 0..15; anything else stands for a character that is no hex digit
HexValid(h) == \A x \in 1..Len(h) : h[x] \in 0..15

Pow2(n) == IF n = 0 THEN 1 ELSE IF n = 1 THEN 2 ELSE IF n = 2 THEN 4 ELSE 8

\* imagehash.hex_to_hash: the bits of the hex string, four per digit (laid out
\* as a square array; the codes drawn here have a square number of bits)
hex_to_hash(h) ==
    [ b \in 1..(4 * Len(h)) |-> (h[((b - 1) \div 4) + 1] \div Pow2(3 - ((b - 1) % 4))) % 2 ]

\* ImageHash.__sub__: the number of differing bits of two hashes of one shape
CountNonzero_onesided(b1, b2) == Cardinality({ x \in 1..Len(b1) : b1[x] = 1 /\ b2[x] = 0 })

CountNonzero(b1, b2) == Cardinality({ x \in 1..Len(b1) : b1[x] # b2[x] })

\* _compute_hash_distance: the Hamming distance, or 999 when hex_to_hash or the
\* subtraction raised (no hex string, hashes of different shapes)
compute_hash_distance_firstonly(hash1, hash2) ==
    IF ~HexValid(hash1) THEN Sentinel
    ELSE IF Len(hash1) > Len(hash2) THEN Sentinel
    ELSE Cardinality({ x \in 1..Len(hash1) : hash1[x] # hash2[x] })

compute_hash_distance(hash1, hash2) ==
    IF ~HexValid(hash1) \/ ~HexValid(hash2) THEN Sentinel
    ELSE IF Len(hash1) # Len(hash2) THEN Sentinel
    ELSE CountNonzero(hex_to_hash(hash1), hex_to_hash(hash2))

\* lines 30-33: data and 'hashes' in data and data['hashes'].get('phash')
HasPhash(data) == data.kind = "record" /\ data.phash # << >>

RECURSIVE ValidDomains_dup(_)
ValidDomains_dup(m) ==
    IF m = << >> THEN << >>
    ELSE IF HasPhash(Head(m).v) THEN << Head(m).k, Head(m).k >> \o ValidDomains_dup(Tail(m))
    ELSE ValidDomains_dup(Tail(m))

RECURSIVE ValidDomains(_)
ValidDomains(m) ==
    IF m = << >> THEN << >>
    ELSE IF HasPhash(Head(m).v) THEN << Head(m).k >> \o ValidDomains(Tail(m))
    ELSE ValidDomains(Tail(m))

\* line 47: the pair is linked
WithinThresholdStrict(distance) == distance < config.NEAR_DUPLICATE_THRESHOLD
WithinThreshold(distance) == distance <= config.NEAR_DUPLICATE_THRESHOLD

\* nx.Graph.add_edge: one edge per unordered pair, its attribute overwritten
add_edge_single(g, u, v, distance) ==
    [ g EXCEPT !.edges = { [pair |-> {u, v}, distance |-> distance] } ]

add_edge(g, u, v, distance) ==
    [ g EXCEPT !.edges = { e \in @ : e.pair # {u, v} }
                           \cup { [pair |-> {u, v}, distance |-> distance] } ]

NodeSet(g) == { g.nodes[x] : x \in 1..Len(g.nodes) }
Adjacent(g, u, v) == \E e \in g.edges : e.pair = {u, v}

\* networkx _plain_bfs: the nodes reachable from the nodes of S
plain_bfs_onestep(g, S) ==
    S \cup { v \in NodeSet(g) : \E u \in S : \E e \in g.edges : e.pair = {u, v} }

RECURSIVE plain_bfs(_, _)
plain_bfs(g, S) ==
    LET next == S \cup { v \in NodeSet(g) : \E u \in S : Adjacent(g, u, v) }
    IN IF next = S THEN S ELSE plain_bfs(g, next)

\* nx.connected_components: one component per node not seen yet, in node order
RECURSIVE components_from(_, _, _)
components_from(g, x, seen) ==
    IF x > Len(g.nodes) THEN << >>
    ELSE IF g.nodes[x] \in seen THEN components_from(g, x + 1, seen)
    ELSE LET c == plain_bfs(g, { g.nodes[x] })
         IN << c >> \o components_from(g, x + 1, seen \cup c)

connected_components_first(g) ==
    IF g.nodes = << >> THEN << >> ELSE << plain_bfs(g, { g.nodes[1] }) >>

connected_components_nonempty(g) ==
    IF g.nodes = << >> THEN << {} >> ELSE components_from(g, 1, {})

connected_components(g) == components_from(g, 1, {})

\* cluster_logos line 97 and cluster_by_similarity lines 28-38: the nodes are added
ClusterEnter ==
    /\ pc = "cluster_enter"
    /\ valid_domains' = ValidDomains(logo_data)
    /\ G' = [nodes |-> valid_domains', edges |-> {}]
    /\ ci' = 1
    /\ ck' = 2
    /\ clusters' = << >>
    /\ pc' = "cluster_pairs"
    /\ UNCHANGED << config, domains, stats, ret, hist >>
    /\ UNCHANGED extractVars /\ UNCHANGED hashVars

\* lines 40-48, one turn of the inner loop: the pair (domain1, domain2) is compared
ClusterCompare ==
    /\ pc = "cluster_pairs"
    /\ ci < Len(valid_domains)
    /\ LET domain1 == valid_domains[ci]
           domain2 == valid_domains[ck]
           hash1 == Get(logo_data, domain1).phash
           hash2 == Get(logo_data, domain2).phash
           distance == compute_hash_distance(hash1, hash2)
       IN /\ G' = IF WithinThreshold(distance)
                  THEN add_edge(G, domain1, domain2, distance) ELSE G
          /\ hist' = [ hist EXCEPT !.compared = @ \cup
                         { [d1 |-> domain1, d2 |-> domain2, distance |-> distance] },
                                   !.ncmp = @ + 1 ]
    /\ IF ck < Len(valid_domains)
       THEN ck' = ck + 1 /\ ci' = ci
       ELSE ci' = ci + 1 /\ ck' = ci + 2
    /\ UNCHANGED << config, domains, pc, valid_domains, clusters, stats, ret >>
    /\ UNCHANGED extractVars /\ UNCHANGED hashVars

\* lines 50-53: the connected components are returned
ClusterComponents ==
    /\ pc = "cluster_pairs"
    /\ ci >= Len(valid_domains)
    /\ clusters' = connected_components(G)
    /\ pc' = "save"
    /\ UNCHANGED << config, domains, valid_domains, G, ci, ck, stats, ret, hist >>
    /\ UNCHANGED extractVars /\ UNCHANGED hashVars

\* cluster_logos line 97, once more: cluster_by_similarity is called again on
\* the same fingerprint map, its entries enumerated in the order perm
ClusterRerun(perm) ==
    /\ pc = "done"
    /\ ~hist.first.done
    /\ logo_data' = [ x \in 1..Len(logo_data) |-> logo_data[perm[x]] ]
    /\ hist' = [ hist EXCEPT !.first = [done |-> TRUE, clusters |-> clusters,
                                        edges |-> G.edges],
                             !.ncmp = 0 ]
    /\ valid_domains' = << >>
    /\ G' = EmptyGraph
    /\ ci' = 0
    /\ ck' = 0
    /\ clusters' = << >>
    /\ pc' = "cluster_enter"
    /\ UNCHANGED << config, domains, items, j, htask, hsem, hqueue, hsession,
                    processed, stats, ret >>
    /\ UNCHANGED extractVars

\* run lines 142-149: the results are written
SaveResults ==
    /\ pc = "save"
    /\ pc' = "done"
    /\ UNCHANGED << config, domains, stats, ret, hist >>
    /\ UNCHANGED extractVars /\ UNCHANGED hashVars /\ UNCHANGED clusterVars

-----------------------------------------------------------------------------
(* Specifications *)

\* _try_common_paths runs only when _extract_from_html returned nothing
ChainOutcomes ==
    { << "url", "none" >>, << "raise", "none" >> }
        \cup { << "none", o >> : o \in StrategyOutcomes }

NextExtract ==
    \/ ExtractEnter
    \/ ExtractBatchStart
    \/ \E p \in 1..Len(domains) : ExtractAcquire(p)
    \/ \E p \in 1..Len(domains) : \E o \in ChainOutcomes : ExtractFinish(p, o[1], o[2])
    \/ ExtractMerge
    \/ ExtractSleepDone
    \/ ExtractReturn
    \/ ExtractCancel

NextHash ==
    \/ HashEnter
    \/ HashChunkStart
    \/ \E p \in 1..Len(items) : HashAcquire(p)
    \/ \E p \in 1..Len(items) : \E o \in ProcessOutcomes : HashFinish(p, o)
    \/ HashConsume
    \/ HashReturn
    \/ HashCancel
    \/ \E p \in 1..Len(items) : OrphanAcquire(p)
    \/ \E p \in 1..Len(items) : OrphanFinish(p)
    \/ LoopShutdown

NextCluster ==
    \/ ClusterEnter
    \/ ClusterCompare
    \/ ClusterComponents
    \/ SaveResults

Next == NextExtract \/ NextHash \/ NextCluster

\* a run of the pipeline
Spec == Init /\ [][Next]_vars

\* the steps of the coordinator coroutines of a run that nobody cancels
ExtractCoordinator ==
    \/ ExtractEnter
    \/ ExtractBatchStart
    \/ ExtractMerge
    \/ ExtractSleepDone
    \/ ExtractReturn

HashCoordinator ==
    \/ HashEnter
    \/ HashChunkStart
    \/ HashConsume
    \/ HashReturn

\* the steps of the worker tasks
ExtractWorker(p) ==
    \/ ExtractAcquire(p)
    \/ \E o \in ChainOutcomes : ExtractFinish(p, o[1], o[2])

HashWorker(p) ==
    \/ HashAcquire(p)
    \/ \E o \in ProcessOutcomes : HashFinish(p, o)

NextRun ==
    \/ ExtractCoordinator
    \/ \E p \in 1..Len(domains) : ExtractWorker(p)
    \/ HashCoordinator
    \/ \E p \in 1..Len(items) : HashWorker(p)
    \/ NextCluster

\* the event loop runs every task that can run, and every request returns
\* (with a response, an error or the total timeout of the session)
Fairness ==
    /\ WF_vars(ExtractCoordinator)
    /\ WF_vars(HashCoordinator)
    /\ WF_vars(NextCluster)
    /\ \A p \in 1..MaxLen : WF_vars(p \in 1..Len(domains) /\ ExtractWorker(p))
    /\ \A p \in 1..MaxLen : WF_vars(p \in 1..Len(items) /\ HashWorker(p))

\* a run of the pipeline that is not cancelled, on a fair event loop
SpecLive == Init /\ [][NextRun]_vars /\ Fairness

\* the dict whose keys are the first n domain names, in that order, the value
\* of the x-th key being vals[x]
Dict(n, vals) ==
    [ x \in 1..n |-> [k |-> DomainNames[x], v |-> vals[x]] ]

\* urls a caller may hand to process_all_images: a url, "" or None
UrlChoices == { "url", "empty", "None" }
UrlValue(d, c) == IF c = "url" THEN favicon(d) ELSE IF c = "empty" THEN EmptyStr ELSE None

\* process_all_images called on a url map of the caller's
InitHash ==
    /\ config \in [ BATCH_SIZE : { 1 }, MAX_CONCURRENT : Concurrencies,
                    HASH_CHUNK_SIZE : ChunkSizes,
                    NEAR_DUPLICATE_THRESHOLD : { DefaultThreshold },
                    MAX_RETRIES : { DefaultRetries } ]
    /\ domains = << >>
    /\ pc = "hash_enter"
    /\ \E n \in 0..MaxItems : \E f \in [ 1..n -> UrlChoices ] :
          logo_urls = Dict(n, [ x \in 1..n |-> UrlValue(DomainNames[x], f[x]) ])
    /\ logo_data = << >>
    /\ stats = [ total_domains |-> 0, logos_extracted |-> 0, logos_processed |-> 0 ]
    /\ InitRest

SpecHash == InitHash /\ [][NextHash]_vars

\* primary hash codes a caller may hand to the clusterer: none, codes of four
\* and of sixteen bits, and a string that is no hex number
H0 == << 0 >>
HXX == << 16, 0, 0, 0 >>
AnyHashes == { << >>, H0, H0000, H0007, H007F, H00F1, HXX }
DataChoices == { << 17 >> } \cup AnyHashes
DataValue(d, c) == IF c = << 17 >> THEN NoneData ELSE Record(favicon(d), c)

\* cluster_by_similarity called on a fingerprint map of the caller's
InitCluster ==
    /\ config \in [ BATCH_SIZE : { 1 }, MAX_CONCURRENT : { 1 }, HASH_CHUNK_SIZE : { 1 },
                    NEAR_DUPLICATE_THRESHOLD : Thresholds,
                    MAX_RETRIES : { DefaultRetries } ]
    /\ domains = << >>
    /\ pc = "cluster_enter"
    /\ logo_urls = << >>
    /\ \E n \in 0..MaxRecords : \E f \in [ 1..n -> DataChoices ] :
          logo_data = Dict(n, [ x \in 1..n |-> DataValue(DomainNames[x], f[x]) ])
    /\ stats = [ total_domains |-> 0, logos_extracted |-> 0, logos_processed |-> 0 ]
    /\ InitRest

SpecCluster == InitCluster /\ [][NextCluster]_vars

\* fingerprint maps of up to MaxSame domains that share their codes: each entry
\* is None or a record with one of two codes
SameChoices == { << 17 >>, H0000, H0007 }

InitSame ==
    /\ config \in [ BATCH_SIZE : { 1 }, MAX_CONCURRENT : { 1 }, HASH_CHUNK_SIZE : { 1 },
                    NEAR_DUPLICATE_THRESHOLD : Thresholds,
                    MAX_RETRIES : { DefaultRetries } ]
    /\ domains = << >>
    /\ pc = "cluster_enter"
    /\ logo_urls = << >>
    /\ \E n \in 0..MaxSame : \E f \in [ 1..n -> SameChoices ] :
          logo_data = Dict(n, [ x \in 1..n |-> DataValue(DomainNames[x], f[x]) ])
    /\ stats = [ total_domains |-> 0, logos_extracted |-> 0, logos_processed |-> 0 ]
    /\ InitRest

SpecSame == InitSame /\ [][NextCluster]_vars

\* largest number of entries of a fingerprint map that is clustered twice
MaxShuffle == 3
AgainChoices == { << 17 >>, H0, H0000, H0007, H007F, HXX }

InitAgain ==
    /\ config \in [ BATCH_SIZE : { 1 }, MAX_CONCURRENT : { 1 }, HASH_CHUNK_SIZE : { 1 },
                    NEAR_DUPLICATE_THRESHOLD : Thresholds,
                    MAX_RETRIES : { DefaultRetries } ]
    /\ domains = << >>
    /\ pc = "cluster_enter"
    /\ logo_urls = << >>
    /\ \E n \in 0..MaxShuffle : \E f \in [ 1..n -> AgainChoices ] :
          logo_data = Dict(n, [ x \in 1..n |-> DataValue(DomainNames[x], f[x]) ])
    /\ stats = [ total_domains |-> 0, logos_extracted |-> 0, logos_processed |-> 0 ]
    /\ InitRest

NextAgain ==
    \/ NextCluster
    \/ \E perm \in Permutations(1..Len(logo_data)) : ClusterRerun(perm)

\* cluster_by_similarity called twice on one fingerprint map
SpecAgain == InitAgain /\ [][NextAgain]_vars


-----------------------------------------------------------------------------
(* Properties *)

Positions == 1..Len(domains)
InputDomains == { domains[p] : p \in Positions }
BatchOf(p) == (p - 1) \div config.BATCH_SIZE
Current == { p \in Positions : etask[p].st \in { "pending", "running", "done" } }
ERunning == { p \in Positions : etask[p].st = "running" }
HRunning == { p \in 1..Len(htask) : htask[p].st = "running" }
HPending == { p \in 1..Len(htask) : htask[p].st = "pending" }
IsUrl(u) == u.kind \in { "html", "path", "favicon" }
Fetched(d) == d \in DOMAIN hist.hout
FetchFailed(d) == Fetched(d) /\ hist.hout[d].failed
FetchOk(d) == Fetched(d) /\ ~hist.hout[d].failed

\* C1: once extract_all_logos has returned, its map has exactly one entry for
\* every input domain, no entry for any other key, and every value is a
\* non-empty url, whatever the outcome of each domain's extraction was.
C1_ExtractionMapTotal ==
    ret.extract.kind = "map" =>
        LET m == ret.extract.map
        IN /\ Keys(m) = InputDomains
           /\ Len(m) = Cardinality(InputDomains)
           /\ \A x \in 1..Len(m) : Truthy(m[x].v) /\ IsUrl(m[x].v)

\* a run whose list repeats a domain, in which a chain raised and another
\* found a logo in the page, has returned its map
C1_Witness ==
    /\ ret.extract.kind = "map"
    /\ hist.efail
    /\ Len(domains) = 3
    /\ Len(ret.extract.map) = 2
    /\ \E x \in 1..Len(ret.extract.map) : ret.extract.map[x].v.kind = "html"
    /\ \E x \in 1..Len(ret.extract.map) : ret.extract.map[x].v.kind = "favicon"

\* the domains of a fingerprint map whose record has a non-empty primary hash
Fingerprinted == { d \in Keys(logo_data) : Get(logo_data, d).kind = "record"
                                             /\ Len(Get(logo_data, d).phash) > 0 }
ClusterDone == pc \in { "save", "done" }

\* C2: the clusters returned by cluster_by_similarity partition the node set
\* (the domains whose record has a non-empty primary hash): their union is the
\* node set, two distinct clusters are disjoint, none is empty.
C2_ClustersPartitionNodes ==
    ClusterDone =>
        /\ NodeSet(G) = Fingerprinted
        /\ UNION { clusters[x] : x \in 1..Len(clusters) } = Fingerprinted
        /\ \A x, y \in 1..Len(clusters) : x # y => clusters[x] \cap clusters[y] = {}
        /\ \A x \in 1..Len(clusters) : clusters[x] # {}

\* a map with a record without a primary hash gave a cluster of two and another
C2_Witness ==
    /\ pc = "done"
    /\ Len(clusters) = 2
    /\ \E x \in 1..Len(clusters) : Cardinality(clusters[x]) = 2
    /\ Keys(logo_data) # Fingerprinted

\* the Hamming distance of two hex codes of one length: the number of bit
\* positions at which they differ
BitAt(d, n) == (d \div Pow2(n)) % 2
HammingDistance(a, b) ==
    Cardinality({ xn \in (1..Len(a)) \X (0..3) : BitAt(a[xn[1]], xn[2]) # BitAt(b[xn[1]], xn[2]) })
Comparable(a, b) == HexValid(a) /\ HexValid(b) /\ Len(a) = Len(b)
PhashOf(d) == Get(logo_data, d).phash

\* C3: two distinct nodes are linked if and only if the Hamming distance of
\* their primary hash codes is at most the near-duplicate threshold (codes of
\* one length, for which the distance is defined); distance == threshold is
\* linked, distance == threshold + 1 is not.
C3_EdgeIffWithinThreshold ==
    ClusterDone =>
        \A u, v \in NodeSet(G) :
            (u # v /\ Comparable(PhashOf(u), PhashOf(v))) =>
                (Adjacent(G, u, v) <=>
                    HammingDistance(PhashOf(u), PhashOf(v)) <= config.NEAR_DUPLICATE_THRESHOLD)

\* at the default threshold, a pair at distance 5 is linked and a pair at
\* distance 6 is not
C3_Witness ==
    /\ pc = "done"
    /\ config.NEAR_DUPLICATE_THRESHOLD = DefaultThreshold
    /\ \E u, v \in NodeSet(G) :
          /\ Comparable(PhashOf(u), PhashOf(v))
          /\ HammingDistance(PhashOf(u), PhashOf(v)) = config.NEAR_DUPLICATE_THRESHOLD
          /\ Adjacent(G, u, v)
    /\ \E u, v \in NodeSet(G) :
          /\ Comparable(PhashOf(u), PhashOf(v))
          /\ HammingDistance(PhashOf(u), PhashOf(v)) = config.NEAR_DUPLICATE_THRESHOLD + 1
          /\ ~Adjacent(G, u, v)

\* C4: once process_all_images has returned, a domain has an entry in the
\* fingerprint map if and only if its url was non-empty and its process_logo
\* gave a record; a domain whose fetch, validation or hashing failed is in
\* no node set and in no cluster, and is in the extraction map with a
\* non-empty url.
C4_FailedDomainAbsent ==
    ret.hash.kind = "map" =>
        \A x \in 1..Len(logo_urls) :
            LET d == logo_urls[x].k
                ok == Truthy(logo_urls[x].v) /\ FetchOk(d)
            IN /\ d \in Keys(ret.hash.map) <=> ok
               /\ ~ok => /\ d \notin NodeSet(G)
                         /\ \A c \in 1..Len(clusters) : d \notin clusters[c]
                         /\ ret.extract.kind = "map"
                         /\ d \in Keys(ret.extract.map)
                         /\ Truthy(Get(ret.extract.map, d))

\* a finished run in which one domain's image failed and another's was clustered
C4_Witness ==
    /\ pc = "done"
    /\ \E d \in Keys(logo_urls) : FetchFailed(d) /\ d \notin Keys(logo_data)
    /\ \E d \in Keys(logo_urls) : FetchOk(d) /\ \E c \in 1..Len(clusters) : d \in clusters[c]

\* C5: the fingerprint map returned by process_all_images is determined by the
\* url map and by what each fetch gave: its keys are the domains with a
\* non-empty url whose process_logo succeeded, each with the url and the code
\* of its own fetch, for every chunk size, concurrency limit and order of
\* completion.
C5_MapIndependentOfScheduling ==
    ret.hash.kind = "map" =>
        LET m == ret.hash.map
            wanted == { d \in Keys(logo_urls) : Truthy(Get(logo_urls, d)) }
        IN /\ \A d \in wanted : Fetched(d)
           /\ Keys(m) = { d \in wanted : FetchOk(d) }
           /\ Len(m) = Cardinality(Keys(m))
           /\ \A d \in Keys(m) : /\ Get(m, d).phash = hist.hout[d].phash
                                 /\ Get(m, d).url = Get(logo_urls, d)

\* three urls hashed in chunks of two by two concurrent workers, the map
\* filled in another order than the input's
C5_Witness ==
    /\ ret.hash.kind = "map"
    /\ Len(items) = 3
    /\ config.HASH_CHUNK_SIZE = 2
    /\ config.MAX_CONCURRENT = 2
    /\ Len(ret.hash.map) = 3
    /\ ret.hash.map[1].k # items[1].k

HashPhase == pc \in { "hash_loop", "hash_consume" }

\* C6: at most MAX_CONCURRENT workers are inside process_logo, under the one
\* semaphore that process_all_images creates for the whole phase: no second
\* one is ever created, and its permits are those not held by a worker.
C6_HashConcurrencyBounded ==
    /\ Cardinality(HRunning) <= config.MAX_CONCURRENT
    /\ hist.semCreated <= 1
    /\ HashPhase => /\ hist.semCreated = 1
                    /\ hsem + Cardinality(HRunning) = config.MAX_CONCURRENT

\* in the second chunk the limiter is full while a worker of the chunk waits
C6_Witness ==
    /\ pc = "hash_consume"
    /\ j > 0
    /\ Cardinality(HRunning) = config.MAX_CONCURRENT
    /\ HPending # {}

\* C7: the input is split into consecutive batches of BATCH_SIZE, run one
\* after another: while an extraction of a batch is pending, running or
\* unmerged, every earlier batch is finished and merged and no other batch
\* has a task; nothing is merged before it finished; and at most
\* MAX_CONCURRENT extractions run at once.
C7_BatchesSequential ==
    /\ \A p \in Current : \A q \in Positions :
          /\ BatchOf(q) < BatchOf(p) => (q \in hist.merged /\ etask[q].st = "merged")
          /\ BatchOf(q) > BatchOf(p) => etask[q].st = "none"
    /\ pc \in { "extract_gather", "extract_sleep" } =>
          Current = { p \in Positions : BatchOf(p) * config.BATCH_SIZE = i }
    /\ \A q \in hist.merged : etask[q].st \in { "done", "merged" }
    /\ Cardinality(ERunning) <= config.MAX_CONCURRENT

\* the second batch runs after the first, of two domains, was merged
C7_Witness ==
    /\ pc = "extract_gather"
    /\ config.BATCH_SIZE = 2
    /\ hist.merged = { 1, 2 }
    /\ etask[3].st = "running"

\* the last position of the current batch that holds the domain of position p
LastOf(p) == CHOOSE q \in Batch : domains[q] = domains[p]
                                  /\ \A r \in Batch : domains[r] = domains[p] => r <= q

\* C8: a failure of one domain's operation aborts neither phase: no exception
\* leaves a coordinator, every domain of every batch and chunk is processed,
\* and each entry is the result of the domain's own operation.
C8_FailureIsolated ==
    /\ hist.crashed = "no"
    /\ pc = "extract_sleep" =>
          \A p \in Batch : /\ domains[p] \in Keys(logo_urls)
                           /\ Get(logo_urls, domains[p]) = etask[LastOf(p)].result
    /\ ret.extract.kind = "map" => \A p \in Positions : etask[p].st = "merged"
    /\ ret.hash.kind = "map" =>
          \A p \in 1..Len(items) :
              LET d == items[p].k
              IN /\ p \in hist.consumed
                 /\ Fetched(d)
                 /\ IF hist.hout[d].failed THEN d \notin Keys(logo_data)
                    ELSE /\ d \in Keys(logo_data)
                         /\ Get(logo_data, d) = Record(items[p].v, hist.hout[d].phash)

\* an extraction chain raised, the first image failed in the first chunk, and
\* the second domain, of the next chunk, has its record all the same
C8_Witness ==
    /\ ret.hash.kind = "map"
    /\ hist.efail
    /\ config.HASH_CHUNK_SIZE = 1
    /\ Len(items) = 2
    /\ FetchFailed(items[1].k)
    /\ FetchOk(items[2].k)
    /\ items[2].k \in Keys(logo_data)

\* C9: two nodes whose primary hash codes differ in length are never given a
\* numeric distance that is compared with the threshold, and are never linked.
C9_MismatchedLengthRejected ==
    /\ \A c \in hist.compared : Len(PhashOf(c.d1)) = Len(PhashOf(c.d2))
    /\ \A u, v \in NodeSet(G) :
          Len(PhashOf(u)) # Len(PhashOf(v)) => ~Adjacent(G, u, v)

\* C10: a cancelled coordinator returns the map of the batches / chunks that
\* were completely merged before the cancellation.
C10_CancelReturnsMergedMap ==
    /\ hist.cancelled = "extract" =>
          (ret.extract.kind = "map" /\ ret.extract.map = hist.boundary)
    /\ hist.cancelled = "hash" =>
          (ret.hash.kind = "map" /\ ret.hash.map = hist.boundary)

\* the coordinator has left the extraction phase / the hashing phase
ExtractLeft == ret.extract.kind # "pending"
HashLeft == ret.hash.kind # "pending"

\* C11: each phase's session is open exactly while the coordinator is inside
\* the phase (opened on entry, closed on return, on an escaping error and on
\* cancellation), and every request of a worker is made while the session of
\* its phase is open.
C11_SessionScoped ==
    /\ pc = "extract_enter" => esession = "unopened"
    /\ pc \in { "extract_loop", "extract_gather", "extract_sleep" } => esession = "open"
    /\ ExtractLeft => esession = "closed"
    /\ (~HashPhase /\ ~HashLeft) => hsession = "unopened"
    /\ HashPhase => hsession = "open"
    /\ HashLeft => hsession = "closed"
    /\ \A o \in hist.issued : o.session = "open"

HashStarted == HashPhase \/ HashLeft \/ \E p \in 1..Len(htask) : htask[p].st # "none"
ClusterStarted == pc \in { "cluster_pairs", "save", "done" } \/ valid_domains # << >>

\* C12: in a run, no hashing worker exists before extract_all_logos has
\* returned with every batch finished and merged, and cluster_by_similarity
\* does not start before process_all_images has returned with every work item
\* of every chunk finished and consumed.
C12_PhasesSequenced ==
    /\ HashStarted =>
          /\ ret.extract.kind = "map"
          /\ hist.merged = Positions
          /\ \A p \in Positions : etask[p].st = "merged"
          /\ items = PendingItems(ret.extract.map)
    /\ ClusterStarted =>
          /\ ret.hash.kind = "map"
          /\ hist.consumed = 1..Len(items)
          /\ \A p \in 1..Len(items) : htask[p].st = "done"
          /\ logo_data = ret.hash.map

\* a run of three batches and two chunks has reached the pair loop
C12_Witness ==
    /\ pc = "cluster_pairs"
    /\ config.BATCH_SIZE = 1
    /\ config.HASH_CHUNK_SIZE = 1
    /\ Len(domains) = 3
    /\ Len(items) = 2
    /\ Len(valid_domains) = 2

\* the nodes joined to a node of S by a path of edges of G
RECURSIVE Reach(_)
Reach(S) ==
    LET T == S \cup { v \in NodeSet(G) : \E w \in S : Adjacent(G, w, v) }
    IN IF T = S THEN S ELSE Reach(T)
Connected(u, v) == v \in Reach({u})
SameCluster(u, v) == \E x \in 1..Len(clusters) : u \in clusters[x] /\ v \in clusters[x]
Dist(u, v) == HammingDistance(PhashOf(u), PhashOf(v))
EdgePairs == { e.pair : e \in G.edges }

\* three nodes whose codes are at the distances ab, bc and ac
Triangle(a, b, c, ab, bc, ac) ==
    /\ Cardinality({a, b, c}) = 3
    /\ Comparable(PhashOf(a), PhashOf(b)) /\ Comparable(PhashOf(b), PhashOf(c))
    /\ Dist(a, b) = ab /\ Dist(b, c) = bc /\ Dist(a, c) = ac

C14_IdenticalCodesOneCluster ==
    (ClusterDone /\ config.NEAR_DUPLICATE_THRESHOLD > 0) =>
        /\ \A u, v \in NodeSet(G) :
              (HexValid(PhashOf(u)) /\ PhashOf(u) = PhashOf(v)) => SameCluster(u, v)
        /\ ( /\ NodeSet(G) # {}
              /\ \A u, v \in NodeSet(G) : HexValid(PhashOf(u)) /\ PhashOf(u) = PhashOf(v) )
            => clusters = << NodeSet(G) >>

\* five domains with one code gave one cluster of five at the default threshold
C14_Witness ==
    /\ pc = "done"
    /\ config.NEAR_DUPLICATE_THRESHOLD = DefaultThreshold
    /\ Cardinality(NodeSet(G)) = 5
    /\ \A u, v \in NodeSet(G) : PhashOf(u) = PhashOf(v)
    /\ Cardinality(G.edges) = 10
    /\ \A e \in G.edges : e.distance = 0
    /\ clusters = << NodeSet(G) >>

Range(q) == { q[x] : x \in 1..Len(q) }
SecondDone == hist.first.done /\ ClusterDone

\* C15: a second call of cluster_by_similarity on the same fingerprint map,
\* enumerated in the same or in any other order, returns the same set of
\* clusters as the first.
C15_PartitionOrderIndependent ==
    SecondDone => Range(clusters) = Range(hist.first.clusters)

\* a map of three nodes enumerated in another order gave the same two
\* clusters, listed in another order
C15_Witness ==
    /\ SecondDone
    /\ pc = "done"
    /\ Len(logo_data) = 3
    /\ logo_data[1].k # DomainNames[1]
    /\ Len(clusters) = 2
    /\ \E x \in 1..2 : Cardinality(clusters[x]) = 2
    /\ clusters # hist.first.clusters

\* C16: _compute_hash_distance gives the same value for a pair of codes in
\* either order, the sentinel of a failed computation included: every
\* distance computed equals that of the swapped arguments, a pair compared in
\* both orders got one distance, and the second call, on the map enumerated
\* in another order, builds the same edges.
C16_DistanceSymmetric ==
    /\ \A c \in hist.compared :
          /\ c.distance = compute_hash_distance(PhashOf(c.d1), PhashOf(c.d2))
          /\ c.distance = compute_hash_distance(PhashOf(c.d2), PhashOf(c.d1))
    /\ \A c1, c2 \in hist.compared :
          {c1.d1, c1.d2} = {c2.d1, c2.d2} => c1.distance = c2.distance
    /\ SecondDone => G.edges = hist.first.edges

\* a pair whose distance is 3 and a pair whose computation fails have each
\* been compared in both orders
C16_Witness ==
    /\ SecondDone
    /\ \E c1, c2 \in hist.compared :
          c1.d1 = c2.d2 /\ c1.d2 = c2.d1 /\ c1.distance = 3
    /\ \E c1, c2 \in hist.compared :
          /\ c1.d1 = c2.d2 /\ c1.d2 = c2.d1 /\ c1.distance = Sentinel
          /\ Len(PhashOf(c1.d1)) # Len(PhashOf(c1.d2))

\* the domains whose url in the map handed to process_all_images is "" or None
EmptyUrlDomains == { d \in Keys(logo_urls) : ~Truthy(Get(logo_urls, d)) }
ItemDomains == { items[p].k : p \in 1..Len(items) }

\* C17: a domain whose url is empty or None gets no work item: it is not in
\* the work list, no worker is created and process_logo is never called for
\* it, and it never enters the fingerprint map.
C17_EmptyUrlFiltered ==
    /\ HashStarted =>
          /\ ItemDomains = Keys(logo_urls) \ EmptyUrlDomains
          /\ Len(items) = Cardinality(ItemDomains)
          /\ Len(htask) = Len(items)
          /\ DOMAIN hist.called = 1..Len(items)
    /\ \A p \in 1..Len(items) : Truthy(items[p].v)
    /\ \A d \in EmptyUrlDomains : /\ d \notin Keys(logo_data)
                                    /\ d \notin DOMAIN hist.hout
                                    /\ ret.hash.kind = "map" => d \notin Keys(ret.hash.map)

\* a map with an empty url, a None url and two urls was hashed: two work items
C17_Witness ==
    /\ ret.hash.kind = "map"
    /\ Len(logo_urls) = 4
    /\ \E x \in 1..4 : logo_urls[x].v = EmptyStr
    /\ \E x \in 1..4 : logo_urls[x].v = None
    /\ Len(items) = 2
    /\ Len(ret.hash.map) = 2

\* C18: nothing is retried, whatever MAX_RETRIES says: extract_logo_url is
\* called at most once for every input position and process_logo at most once
\* for every domain with a url, also when the call failed, and exactly once
\* when the phase has returned.
C18_NoRetry ==
    /\ \A p \in DOMAIN hist.ecalled : hist.ecalled[p] <= 1
    /\ \A p \in DOMAIN hist.called : hist.called[p] <= 1
    /\ Len(items) = Cardinality(ItemDomains)
    /\ ret.extract.kind = "map" => \A p \in Positions : hist.ecalled[p] = 1
    /\ ret.hash.kind = "map" => \A p \in 1..Len(items) : hist.called[p] = 1

\* a finished run with a retry count of 1 in which an extraction chain raised
\* and an image could not be fetched: each was called once
C18_Witness ==
    /\ pc = "done"
    /\ config.MAX_RETRIES > 0
    /\ hist.efail
    /\ Len(domains) = 3
    /\ \E p \in 1..Len(items) : FetchFailed(items[p].k) /\ hist.called[p] = 1

ChunkOf(p) == (p - 1) \div config.HASH_CHUNK_SIZE
HCreated == { p \in 1..Len(htask) : htask[p].st # "none" }
HInFlight == { p \in 1..Len(htask) : htask[p].st \in { "pending", "running" } }
HUnmerged == HCreated \ hist.consumed

\* C19: the work list is cut into consecutive chunks of HASH_CHUNK_SIZE; at
\* most HASH_CHUNK_SIZE work units are created and not yet completed (nor
\* merged), and a unit exists only when every unit of every earlier chunk has
\* completed and been merged.
C19_ChunksBoundInFlight ==
    /\ Cardinality(HInFlight) <= config.HASH_CHUNK_SIZE
    /\ Cardinality(HUnmerged) <= config.HASH_CHUNK_SIZE
    /\ \A p \in HCreated : \A q \in 1..Len(htask) :
          ChunkOf(q) < ChunkOf(p) => (htask[q].st = "done" /\ q \in hist.consumed)
    /\ pc = "hash_consume" =>
          /\ j % config.HASH_CHUNK_SIZE = 0
          /\ HCreated = 1..Min(j + config.HASH_CHUNK_SIZE, Len(items))
          /\ HUnmerged \subseteq Chunk
    /\ pc = "hash_loop" => HUnmerged = {}

\* the two units of the second chunk are in flight, the first chunk is merged
C19_Witness ==
    /\ pc = "hash_consume"
    /\ config.HASH_CHUNK_SIZE = 2
    /\ Len(items) = 4
    /\ hist.consumed = { 1, 2 }
    /\ HInFlight = { 3, 4 }

ComparedPairs == { {c.d1, c.d2} : c \in hist.compared }
NodePairs == { {u, v} : u, v \in NodeSet(G) } \ { {u} : u \in NodeSet(G) }

\* C20: the graph has no self-loop and at most one edge for an unordered pair
\* of nodes, every comparison is of two distinct nodes and none is made twice,
\* at the end every unordered pair of distinct nodes has been compared, and
\* the weight of an edge is the distance computed for its pair.
C20_SimpleGraph ==
    /\ \A e \in G.edges : Cardinality(e.pair) = 2 /\ e.pair \subseteq NodeSet(G)
    /\ \A e1, e2 \in G.edges : e1.pair = e2.pair => e1 = e2
    /\ Len(G.nodes) = Cardinality(NodeSet(G))
    /\ \A c \in hist.compared : c.d1 # c.d2
    /\ Cardinality(ComparedPairs) = hist.ncmp
    /\ ComparedPairs \subseteq NodePairs
    /\ ClusterDone => ComparedPairs = NodePairs
    /\ \A e \in G.edges : \E c \in hist.compared :
          /\ {c.d1, c.d2} = e.pair
          /\ c.distance = e.distance
          /\ e.distance = compute_hash_distance(PhashOf(c.d1), PhashOf(c.d2))

\* four nodes, six comparisons, an edge of weight 3, an edge of weight 0 and
\* a pair left unlinked
C20_Witness ==
    /\ pc = "done"
    /\ Cardinality(NodeSet(G)) = 4
    /\ hist.ncmp = 6
    /\ \E e \in G.edges : e.distance = 3
    /\ \E e \in G.edges : e.distance = 0
    /\ Cardinality(G.edges) < 6

NoFingerprint == logo_data = << >>

\* C21: no stage is fatal: no exception leaves a stage, a run that nobody
\* cancelled can always take a next step until it is done, and a finished run
\* without any fingerprint (empty list, or every fetch failed) has gone
\* through every stage and gives an empty cluster sequence, the statistics
\* showing the counts.
C21_NoStageFatal ==
    /\ hist.crashed = "no"
    /\ pc \notin { "crashed" }
    /\ (hist.cancelled = "no" /\ pc # "done") => ENABLED NextRun
    /\ (pc = "done" /\ NoFingerprint) =>
          /\ ret.extract.kind = "map"
          /\ ret.hash.kind = "map" /\ ret.hash.map = << >>
          /\ \A p \in 1..Len(items) : FetchFailed(items[p].k)
          /\ valid_domains = << >>
          /\ G = EmptyGraph
          /\ clusters = << >>
          /\ stats = [ total_domains |-> Len(domains),
                       logos_extracted |-> Cardinality(InputDomains),
                       logos_processed |-> 0 ]

\* a run over three positions in which every fetch failed is done
C21_Witness ==
    /\ pc = "done"
    /\ Len(domains) = 3
    /\ Len(items) = 2
    /\ \A p \in 1..Len(items) : FetchFailed(items[p].k)
    /\ NoFingerprint
    /\ clusters = << >>
    /\ stats.logos_extracted = 2
    /\ stats.logos_processed = 0

ESemCreated == \E p \in Positions : etask[p] # NoTask
EHeld == config.MAX_CONCURRENT - esem
HHeld == config.MAX_CONCURRENT - hsem
HashReturned == ret.hash.kind = "map"

\* C22: permits are never leaked: in both phases the permits held are exactly
\* those of the workers inside the guarded operation (a worker that left it,
\* with a result, a failure or a cancellation, holds none), their number stays
\* within 0..MAX_CONCURRENT, and none is held once a batch of the extraction
\* is merged, once process_all_images has returned, or once the loop stopped.
C22_PermitsNeverLeaked ==
    /\ ESemCreated =>
          /\ EHeld \in 0..config.MAX_CONCURRENT
          /\ EHeld = Cardinality(ERunning)
    /\ hist.semCreated = 1 =>
          /\ HHeld \in 0..config.MAX_CONCURRENT
          /\ HHeld = Cardinality(HRunning)
    /\ (ESemCreated /\ pc # "extract_gather") => EHeld = 0
    /\ (HashReturned \/ pc = "stopped") => (hist.semCreated = 1 => HHeld = 0)

\* both phases have returned after workers held permits and gave them back on
\* a failure: two extraction workers shared one permit and one of them ended
\* with its request raising, two hashing workers shared one permit and one of
\* them failed
C22_Witness ==
    /\ pc = "cluster_enter"
    /\ config.MAX_CONCURRENT = 1
    /\ config.BATCH_SIZE = 2
    /\ config.HASH_CHUNK_SIZE = 2
    /\ Len(items) = 2
    /\ hist.efail
    /\ \E p \in 1..Len(items) : FetchFailed(items[p].k)
    /\ \E p \in 1..Len(items) : FetchOk(items[p].k)
    /\ \A p \in 1..Len(items) : hist.called[p] = 1
    /\ EHeld = 0
    /\ HHeld = 0

EUnfinished == { p \in Positions : etask[p].st \in { "pending", "running" } }
HUnfinished == { p \in 1..Len(htask) : htask[p].st \in { "pending", "running" } }
RunComplete ==
    /\ pc = "done"
    /\ EUnfinished = {}
    /\ HUnfinished = {}
    /\ hist.merged = Positions
    /\ hist.consumed = 1..Len(items)

\* C23: on a fair event loop whose requests all return, a run that nobody
\* cancels terminates: it reaches the clustering stage, and from some point on
\* it is done with no worker left waiting for a permit or inside a request,
\* every extraction batch merged and every hashing chunk consumed.
C23_RunTerminates ==
    /\ <>ClusterStarted
    /\ <>[]RunComplete

\* a finished run of two batches and one chunk in which two workers shared
\* the single permit, so one of them had to wait for it in each phase
C23_Witness ==
    /\ pc = "done"
    /\ Len(domains) = 3
    /\ config.BATCH_SIZE = 2
    /\ config.HASH_CHUNK_SIZE = 2
    /\ config.MAX_CONCURRENT = 1
    /\ hist.merged = 1..3
    /\ hist.consumed = 1..2
    /\ hist.cancelled = "no"

=============================================================================
